---- MODULE Spec2Model ----
(***************************************************************************)
(* The NASA "near earth object" relay of backend/nasa_api/main.py: a       *)
(* FastAPI application with four routes.  Every endpoint is an `async def` *)
(* coroutine, so all of them run on the one event-loop thread of the       *)
(* server; get_neo calls the synchronous requests.get and holds that       *)
(* thread until the upstream answers or the transport fails.               *)
(*                                                                         *)
(* Text is modelled as a sequence of one-character strings, bytes as a     *)
(* sequence of integers.                                                   *)
(***************************************************************************)
EXTENDS Integers, Sequences, FiniteSets, TLC

\* ------------------------------------------------------------- bounds
MaxReqs == 2
MaxNameLen == 1
MaxBodyLen == 1

ReqIds == 1..MaxReqs

SeqsOver(S, n) == UNION {[1..k -> S] : k \in 0..n}

\* ------------------------------------------------------------- text
Lower == <<"a","b","c","d","e","f","g","h","i","j","k","l","m","n","o","p","q","r","s","t","u","v","w","x","y","z">>
Upper == <<"A","B","C","D","E","F","G","H","I","J","K","L","M","N","O","P","Q","R","S","T","U","V","W","X","Y","Z">>
Digits == <<"0","1","2","3","4","5","6","7","8","9">>

InSeq(c, s) == \E i \in 1..Len(s) : s[i] = c
IndexOf(c, s) == CHOOSE i \in 1..Len(s) : s[i] = c

\* ------------------------------------------------------------- credential
\* A decoder that rotates lower-case letters only.
rot13_lower_only(c) ==
  IF InSeq(c, Lower) THEN Lower[((IndexOf(c, Lower) + 12) % 26) + 1] ELSE c

\* codecs' rot13 on one character: letters rotate by 13 within their case,
\* every other character is kept.
rot13(c) ==
  IF InSeq(c, Lower) THEN Lower[((IndexOf(c, Lower) + 12) % 26) + 1]
  ELSE IF InSeq(c, Upper) THEN Upper[((IndexOf(c, Upper) + 12) % 26) + 1]
  ELSE c

codecs_decode(s) == [i \in 1..Len(s) |-> rot13(s[i])]

NASA_LITERAL == <<"9","P","N","J","i","W","S","U","G","z","p","F","t","r","e","N","t","H","W","z","y","T","8","w","0","u","t","e","0","6","K","V","c","U","D","R","K","p","t","6">>

\* ------------------------------------------------------------- dates
\* datetime.datetime values a caller can supply: one with a time of day and
\* a later calendar date, one at midnight with an earlier calendar date.
DateTimes ==
  { [year |-> 2024, month |-> 2, day |-> 29, hour |-> 23, minute |-> 59],
    [year |-> 2023, month |-> 12, day |-> 1, hour |-> 0, minute |-> 0] }

DefaultDateTime == [year |-> 2023, month |-> 12, day |-> 1, hour |-> 0, minute |-> 0]

\* datetime.date(): the calendar part, the time of day dropped.
date(dt) == [year |-> dt.year, month |-> dt.month, day |-> dt.day]

Pow10(k) == IF k = 0 THEN 1 ELSE IF k = 1 THEN 10 ELSE IF k = 2 THEN 100 ELSE 1000

ZeroPad(n, w) == [i \in 1..w |-> Digits[((n \div Pow10(w - i)) % 10) + 1]]

\* str(date), which requests uses to encode a query value: YYYY-MM-DD.
date_str(d) == ZeroPad(d.year, 4) \o <<"-">> \o ZeroPad(d.month, 2) \o <<"-">> \o ZeroPad(d.day, 2)

\* ------------------------------------------------------------- paths
P_root == <<"/">>
P_heartbeat == <<"/","h","e","a","r","t","b","e","a","t">>
P_neo == <<"/","n","e","o">>
P_hello == <<"/","h","e","l","l","o","/">>

NEO_URL == "https://api.nasa.gov/neo/rest/v1/feed"

NameChars == {"a", "/", " "}
Names == SeqsOver(NameChars, MaxNameLen)

\* What a client can send: every path with GET, the two fixed paths with HEAD
\* too, /neo with its two dates in either order, and the health and root
\* requests also with a body attached.
Plain(m, p, body) ==
  [method |-> m, path |-> p, start_date |-> DefaultDateTime,
   end_date |-> DefaultDateTime, body |-> body]

RequestInputs ==
  {Plain("GET", p, <<>>) : p \in {P_root, P_heartbeat, P_neo \o <<"/">>}}
  \cup {Plain("GET", P_hello \o n, <<>>) : n \in Names}
  \cup {Plain("HEAD", p, <<>>) : p \in {P_root, P_heartbeat}}
  \cup {Plain("HEAD", P_heartbeat, <<"x">>), Plain("GET", P_root, <<"x">>)}
  \cup {[method |-> "GET", path |-> P_neo, start_date |-> d[1], end_date |-> d[2],
         body |-> <<>>] : d \in {x \in DateTimes \X DateTimes : x[1] # x[2]}}

\* ------------------------------------------------------------- upstream
Statuses == {200, 500}
Bytes == {0, 255}
Contents == SeqsOver(Bytes, MaxBodyLen)

\* ------------------------------------------------------------- responses
S_alive == <<"a","l","i","v","e">>
S_Hello == <<"H","e","l","l","o"," ">>
S_HelloWorld == <<"H","e","l","l","o"," ","W","o","r","l","d">>
S_NotFound == <<"N","o","t"," ","F","o","u","n","d">>
S_MethodNotAllowed == <<"M","e","t","h","o","d"," ","N","o","t"," ","A","l","l","o","w","e","d">>

\* A response: json is the payload of a JSON response as <<key, value>> pairs,
\* content the raw bytes of a plain Response, text the text of a plain-text one.
NoResponse == [status_code |-> 0, json |-> <<>>, content |-> <<>>, text |-> ""]
JSONResponse(code, payload) == [status_code |-> code, json |-> payload, content |-> <<>>, text |-> ""]
RawResponse(code, bytes) == [status_code |-> code, json |-> <<>>, content |-> bytes, text |-> ""]

\* What the framework answers when an endpoint raises.
ServerError == [status_code |-> 500, json |-> <<>>, content |-> <<>>, text |-> "Internal Server Error"]
NotFound == JSONResponse(404, << <<"detail", S_NotFound>> >>)
MethodNotAllowed == JSONResponse(405, << <<"detail", S_MethodNotAllowed>> >>)
RedirectSlashes == [status_code |-> 307, json |-> <<>>, content |-> <<>>, text |-> ""]

\* ------------------------------------------------------------- routing
\* The route table, in registration order.  A {name} parameter matches one
\* non-empty path segment.
Routes ==
  << [endpoint |-> "heartbeat", method |-> "HEAD", path |-> P_heartbeat, param |-> FALSE],
     [endpoint |-> "get_neo",   method |-> "GET",  path |-> P_neo,       param |-> FALSE],
     [endpoint |-> "root",      method |-> "GET",  path |-> P_root,      param |-> FALSE],
     [endpoint |-> "say_hello", method |-> "GET",  path |-> P_hello,     param |-> TRUE] >>

PathMatches(route, path) ==
  IF route.param
  THEN /\ Len(path) > Len(route.path)
       /\ SubSeq(path, 1, Len(route.path)) = route.path
       /\ \A i \in (Len(route.path) + 1)..Len(path) : path[i] # "/"
  ELSE path = route.path

RECURSIVE RStrip(_)
RStrip(path) ==
  IF Len(path) > 0 /\ path[Len(path)] = "/" THEN RStrip(SubSeq(path, 1, Len(path) - 1)) ELSE path

RedirectPath(path) ==
  IF Len(path) > 0 /\ path[Len(path)] = "/" THEN RStrip(path) ELSE path \o <<"/">>

\* The endpoint a request is dispatched to, or the framework's own answer.
Resolve(method, path) ==
  IF \E i \in 1..Len(Routes) : PathMatches(Routes[i], path) /\ Routes[i].method = method
  THEN Routes[CHOOSE i \in 1..Len(Routes) :
                 PathMatches(Routes[i], path) /\ Routes[i].method = method].endpoint
  ELSE IF \E i \in 1..Len(Routes) : PathMatches(Routes[i], path) THEN "405"
  ELSE IF path # P_root /\ \E i \in 1..Len(Routes) : PathMatches(Routes[i], RedirectPath(path))
  THEN "307"
  ELSE "404"

\* The value bound to {name}.
PathParam(path) == SubSeq(path, Len(P_hello) + 1, Len(path))

\* ------------------------------------------------------------- state
VARIABLES
  NASA,    \* the module-level credential
  reqs,    \* per request id: what the client sent and how far it got
  resp,    \* per request id: the response sent back, NoResponse until then
  calls,   \* the log of requests.get calls, in the order they were issued
  loop     \* the request whose endpoint holds the event-loop thread, 0 if idle

vars == <<NASA, reqs, resp, calls, loop>>

Absent == [method |-> "GET", path |-> P_root, start_date |-> DefaultDateTime,
           end_date |-> DefaultDateTime, body |-> <<>>, st |-> "absent"]

Init ==
  /\ NASA = codecs_decode(NASA_LITERAL)
  /\ reqs = [r \in ReqIds |-> Absent]
  /\ resp = [r \in ReqIds |-> NoResponse]
  /\ calls = <<>>
  /\ loop = 0

\* A client's request reaches the server and waits for the event loop.
Arrive(q) ==
  /\ \E r \in ReqIds : reqs[r].st = "absent"
  /\ LET r == CHOOSE i \in ReqIds :
                reqs[i].st = "absent" /\ \A j \in ReqIds : reqs[j].st = "absent" => i <= j
     IN reqs' = [reqs EXCEPT ![r] =
                   [method |-> q.method, path |-> q.path, start_date |-> q.start_date,
                    end_date |-> q.end_date, body |-> q.body, st |-> "queued"]]
  /\ UNCHANGED <<NASA, resp, calls, loop>>

\* The event loop is free and request r is routed to `endpoint`.
Dispatched(r, endpoint) ==
  /\ loop = 0
  /\ reqs[r].st = "queued"
  /\ Resolve(reqs[r].method, reqs[r].path) = endpoint

\* An endpoint that returns without waiting: the response goes out.
Respond(r, response) ==
  /\ reqs' = [reqs EXCEPT ![r].st = "done"]
  /\ resp' = [resp EXCEPT ![r] = response]
  /\ UNCHANGED <<NASA, calls, loop>>

\* ------------------------------------------------------------- endpoints
\* A health payload that reports on the upstream.
heartbeat_upstream_state ==
  IF \E i \in 1..Len(calls) : calls[i].result = "raised"
  THEN << <<"status", <<"d","e","a","d">> >> >>
  ELSE << <<"status", S_alive>> >>

\* heartbeat(): the fixed payload.
heartbeat == << <<"status", S_alive>> >>

\* A greeting that changes once the relay has been used.
root_after_relay ==
  IF calls # <<>> THEN << <<"message", S_Hello>> >> ELSE << <<"message", S_HelloWorld>> >>

\* root(): the fixed payload.
root == << <<"message", S_HelloWorld>> >>

\* A greeting that strips blanks from the name.
say_hello_stripped(name) ==
  << <<"message", S_Hello \o SelectSeq(name, LAMBDA c : c # " ")>> >>

\* say_hello(name): the name interpolated after "Hello ".
say_hello(name) == << <<"message", S_Hello \o name>> >>

\* Parameters with the two dates under each other's key.
neo_params_swapped(start_date, end_date, api_key) ==
  [start_date |-> date(end_date), end_date |-> date(start_date), api_key |-> api_key]

\* The params dict get_neo builds.
neo_params(start_date, end_date, api_key) ==
  [start_date |-> date(start_date), end_date |-> date(end_date), api_key |-> api_key]

\* The query string requests builds from the params: each value through str().
urlencode(params) ==
  [start_date |-> date_str(params.start_date),
   end_date |-> date_str(params.end_date),
   api_key |-> params.api_key]

\* A relay response that keeps the default status.
neo_response_default_status(status_code, content) == RawResponse(200, content)

\* The response get_neo returns: upstream's status code and content copied on.
neo_response(status_code, content) == RawResponse(status_code, content)

serve_heartbeat(r) == Dispatched(r, "heartbeat") /\ Respond(r, JSONResponse(200, heartbeat))

serve_root(r) == Dispatched(r, "root") /\ Respond(r, JSONResponse(200, root))

serve_say_hello(r) ==
  /\ Dispatched(r, "say_hello")
  /\ Respond(r, JSONResponse(200, say_hello(PathParam(reqs[r].path))))

\* No endpoint takes the request: the framework answers by itself.
no_route(r) ==
  /\ \E code \in {"404", "405", "307"} :
       /\ Dispatched(r, code)
       /\ Respond(r, CASE code = "404" -> NotFound
                       [] code = "405" -> MethodNotAllowed
                       [] OTHER -> RedirectSlashes)

PendingCall(r) ==
  CHOOSE i \in 1..Len(calls) : calls[i].req = r /\ calls[i].result = "pending"

\* get_neo up to and into requests.get: the call is issued and the endpoint,
\* which never awaits, keeps the event-loop thread while it waits.
get_neo_call(r) ==
  /\ Dispatched(r, "get_neo")
  /\ calls' = Append(calls,
       [req |-> r, url |-> NEO_URL,
        query |-> urlencode(neo_params(reqs[r].start_date, reqs[r].end_date, NASA)),
        result |-> "pending", status_code |-> 0, content |-> <<>>])
  /\ reqs' = [reqs EXCEPT ![r].st = "running"]
  /\ loop' = r
  /\ UNCHANGED <<NASA, resp>>

\* A relay that calls again when the upstream's status is not 2xx.
get_neo_return_retry(r, status_code, content) ==
  /\ loop = r
  /\ reqs[r].st = "running"
  /\ IF status_code = 200
     THEN /\ calls' = [calls EXCEPT ![PendingCall(r)] =
                 [@ EXCEPT !.result = "returned", !.status_code = status_code, !.content = content]]
          /\ reqs' = [reqs EXCEPT ![r].st = "done"]
          /\ resp' = [resp EXCEPT ![r] = neo_response(status_code, content)]
          /\ loop' = 0
     ELSE /\ calls' = Append([calls EXCEPT ![PendingCall(r)] =
                 [@ EXCEPT !.result = "returned", !.status_code = status_code, !.content = content]],
                 [calls[PendingCall(r)] EXCEPT !.result = "pending"])
          /\ UNCHANGED <<reqs, resp, loop>>
  /\ UNCHANGED NASA

\* requests.get returns the upstream's response; get_neo copies it and returns.
get_neo_return(r, status_code, content) ==
  /\ loop = r
  /\ reqs[r].st = "running"
  /\ calls' = [calls EXCEPT ![PendingCall(r)] =
         [@ EXCEPT !.result = "returned", !.status_code = status_code, !.content = content]]
  /\ reqs' = [reqs EXCEPT ![r].st = "done"]
  /\ resp' = [resp EXCEPT ![r] = neo_response(status_code, content)]
  /\ loop' = 0
  /\ UNCHANGED NASA

\* A relay that swallows the transport error and returns its response object.
get_neo_raise_caught(r) ==
  /\ loop = r
  /\ reqs[r].st = "running"
  /\ calls' = [calls EXCEPT ![PendingCall(r)] = [@ EXCEPT !.result = "raised"]]
  /\ reqs' = [reqs EXCEPT ![r].st = "done"]
  /\ resp' = [resp EXCEPT ![r] = RawResponse(200, <<>>)]
  /\ loop' = 0
  /\ UNCHANGED NASA

\* requests.get raises; nothing in get_neo catches it, the framework answers.
get_neo_raise(r) ==
  /\ loop = r
  /\ reqs[r].st = "running"
  /\ calls' = [calls EXCEPT ![PendingCall(r)] = [@ EXCEPT !.result = "raised"]]
  /\ reqs' = [reqs EXCEPT ![r].st = "done"]
  /\ resp' = [resp EXCEPT ![r] = ServerError]
  /\ loop' = 0
  /\ UNCHANGED NASA

\* The steps the server takes on its own, without the upstream.
Serve(r) ==
  \/ serve_heartbeat(r)
  \/ serve_root(r)
  \/ serve_say_hello(r)
  \/ no_route(r)
  \/ get_neo_call(r)

Next ==
  \/ \E q \in RequestInputs : Arrive(q)
  \/ \E r \in ReqIds : serve_heartbeat(r)
  \/ \E r \in ReqIds : serve_root(r)
  \/ \E r \in ReqIds : serve_say_hello(r)
  \/ \E r \in ReqIds : no_route(r)
  \/ \E r \in ReqIds : get_neo_call(r)
  \/ \E r \in ReqIds, status_code \in Statuses, content \in Contents :
       get_neo_return(r, status_code, content)
  \/ \E r \in ReqIds : get_neo_raise(r)

Spec == Init /\ [][Next]_vars

\* The event loop runs whatever it can run; nothing makes the upstream answer,
\* and requests.get is called without a timeout.
FairSpec == Spec /\ \A r \in ReqIds : WF_vars(Serve(r))

\* ------------------------------------------------------------- properties
IsNeo(r) == reqs[r].method = "GET" /\ reqs[r].path = P_neo
CallsOf(r) == {i \in 1..Len(calls) : calls[i].req = r}

\* C1: whenever requests.get returned an upstream response, whatever its status
\* code and bytes, the relay's response has that status code and those bytes,
\* and it is the relay's own response, not the framework's error answer.
C1_Passthrough ==
  \A i \in 1..Len(calls) :
    calls[i].result = "returned" =>
      /\ reqs[calls[i].req].st = "done"
      /\ resp[calls[i].req].status_code = calls[i].status_code
      /\ resp[calls[i].req].content = calls[i].content
      /\ resp[calls[i].req].text = ""

C1_Witness ==
  \E i \in 1..Len(calls) :
    /\ calls[i].result = "returned"
    /\ calls[i].status_code = 500
    /\ calls[i].content # <<>>
    /\ resp[calls[i].req].status_code = 500

\* C2: when requests.get raised, the request ended with the generic server
\* error (status 500, nothing of an upstream response in it, never a 200) and
\* the event loop is free for other requests.
C2_TransportError ==
  \A i \in 1..Len(calls) :
    calls[i].result = "raised" =>
      /\ reqs[calls[i].req].st = "done"
      /\ resp[calls[i].req] =
           [status_code |-> 500, json |-> <<>>, content |-> <<>>,
            text |-> "Internal Server Error"]
      /\ loop # calls[i].req

\* A relay call failed and a later relay call was answered with a 200.
C2_Witness ==
  \E i, j \in 1..Len(calls) :
    /\ i < j
    /\ calls[i].result = "raised"
    /\ calls[j].result = "returned"
    /\ resp[calls[j].req].status_code = 200

DigitValue(c) == IndexOf(c, Digits) - 1
IsDateOnly(s) ==
  /\ Len(s) = 10
  /\ s[5] = "-" /\ s[8] = "-"
  /\ \A k \in {1, 2, 3, 4, 6, 7, 9, 10} : InSeq(s[k], Digits)
ParseDate(s) ==
  [year |-> 1000 * DigitValue(s[1]) + 100 * DigitValue(s[2]) + 10 * DigitValue(s[3]) + DigitValue(s[4]),
   month |-> 10 * DigitValue(s[6]) + DigitValue(s[7]),
   day |-> 10 * DigitValue(s[9]) + DigitValue(s[10])]

\* C3: the start_date and end_date of every outbound query are date-only
\* values that read back as the year, month and day of the request's
\* start_date and end_date respectively, whichever of the two is later.
C3_DateOnly ==
  \A i \in 1..Len(calls) :
    LET q == calls[i].query
        r == calls[i].req
    IN /\ IsDateOnly(q.start_date)
       /\ IsDateOnly(q.end_date)
       /\ ParseDate(q.start_date) =
            [year |-> reqs[r].start_date.year, month |-> reqs[r].start_date.month,
             day |-> reqs[r].start_date.day]
       /\ ParseDate(q.end_date) =
            [year |-> reqs[r].end_date.year, month |-> reqs[r].end_date.month,
             day |-> reqs[r].end_date.day]

\* A call was made for a start with a time of day that lies after the end.
C3_Witness ==
  \E i \in 1..Len(calls) :
    /\ reqs[calls[i].req].start_date.hour # 0
    /\ reqs[calls[i].req].start_date.year > reqs[calls[i].req].end_date.year

HelloPayload(name) ==
  [status_code |-> 200, json |-> << <<"message", S_Hello \o name>> >>,
   content |-> <<>>, text |-> ""]

\* C4 as claimed: GET /hello/{name} answers 200 "Hello " + name for every
\* string put in the place of {name}.
C4_AnyName ==
  \A r \in ReqIds : \A name \in Names :
    (reqs[r].st = "done" /\ reqs[r].method = "GET" /\ reqs[r].path = P_hello \o name)
      => resp[r] = HelloPayload(name)

IsSegment(name) == name # <<>> /\ \A k \in 1..Len(name) : name[k] # "/"

\* C4 amended: GET /hello/{name} answers 200 "Hello " + name, the name exactly
\* as supplied, for every non-empty name that holds no "/".
C4_SegmentName ==
  \A r \in ReqIds : \A name \in Names :
    (reqs[r].st = "done" /\ reqs[r].method = "GET" /\ reqs[r].path = P_hello \o name
       /\ IsSegment(name))
      => resp[r] = HelloPayload(name)

\* A name that is one blank was greeted.
C4_Witness ==
  \E r \in ReqIds :
    /\ reqs[r].st = "done"
    /\ reqs[r].method = "GET"
    /\ reqs[r].path = P_hello \o <<" ">>
    /\ resp[r].status_code = 200

IsHeartbeat(r) == reqs[r].method = "HEAD" /\ reqs[r].path = P_heartbeat

\* C5: every answered HEAD /heartbeat carries 200 and {"status": "alive"},
\* whatever the request carried and whatever happened to other requests.
C5_HeartbeatFixed ==
  \A r \in ReqIds :
    (reqs[r].st = "done" /\ IsHeartbeat(r)) =>
      resp[r] = [status_code |-> 200, json |-> << <<"status", <<"a","l","i","v","e">> >> >>,
                 content |-> <<>>, text |-> ""]

\* A probe sent with a body was answered after a relay call had failed.
C5_Witness ==
  \E r \in ReqIds :
    /\ reqs[r].st = "done"
    /\ IsHeartbeat(r)
    /\ reqs[r].body # <<>>
    /\ \E i \in 1..Len(calls) : calls[i].result = "raised"

\* C6: every answered GET / carries 200 and {"message": "Hello World"}, in
\* every reachable state.
C6_RootFixed ==
  \A r \in ReqIds :
    (reqs[r].st = "done" /\ reqs[r].method = "GET" /\ reqs[r].path = P_root) =>
      resp[r] = [status_code |-> 200,
                 json |-> << <<"message", <<"H","e","l","l","o"," ","W","o","r","l","d">> >> >>,
                 content |-> <<>>, text |-> ""]

\* GET / was answered in a state where a relay request has failed.
C6_Witness ==
  \E r \in ReqIds :
    /\ reqs[r].st = "done"
    /\ reqs[r].method = "GET"
    /\ reqs[r].path = P_root
    /\ \E i \in 1..Len(calls) :
         calls[i].result = "raised" /\ resp[calls[i].req].status_code = 500

\* C7: a GET /neo request that was started has exactly one outbound call, to
\* the fixed URL; while that call is pending there is no response yet, and the
\* call is over once there is one; no other request has an outbound call.
C7_OneCall ==
  /\ \A i \in 1..Len(calls) : calls[i].url = "https://api.nasa.gov/neo/rest/v1/feed"
  /\ \A r \in ReqIds :
       IF IsNeo(r) /\ reqs[r].st \in {"running", "done"}
       THEN /\ Cardinality(CallsOf(r)) = 1
            /\ \A i \in CallsOf(r) :
                 /\ reqs[r].st = "running" => (calls[i].result = "pending" /\ resp[r] = NoResponse)
                 /\ reqs[r].st = "done" => (calls[i].result # "pending" /\ resp[r] # NoResponse)
       ELSE CallsOf(r) = {}

\* One relay request failed in transport, another got a non-2xx answer, and
\* the log holds just their two calls.
C7_Witness ==
  /\ Len(calls) = 2
  /\ \E i, j \in 1..Len(calls) :
       /\ calls[i].result = "raised"
       /\ calls[j].result = "returned"
       /\ calls[j].status_code = 500

DecodedKey == <<"9","C","A","W","v","J","F","H","T","m","c","S","g","e","r","A","g","U","J","m","l","G","8","j","0","h","g","r","0","6","X","I","p","H","Q","E","X","c","g","6">>

\* C8: in every reachable state the credential is the decoded literal and the
\* api_key of every outbound call is that value; no step changes the
\* credential, and a step changes the record and response of one request at most.
C8_Credential ==
  /\ [](NASA = DecodedKey /\ \A i \in 1..Len(calls) : calls[i].query.api_key = DecodedKey)
  /\ [][/\ NASA' = NASA
        /\ \A r, q \in ReqIds :
             (r # q /\ (reqs'[r] # reqs[r] \/ resp'[r] # resp[r]))
               => (reqs'[q] = reqs[q] /\ resp'[q] = resp[q])]_vars

\* Two different requests have made their outbound calls.
C8_Witness ==
  \E i, j \in 1..Len(calls) : calls[i].req # calls[j].req

\* C9 as claimed: a GET /neo request that waits to be served can always start
\* its outbound call, whatever calls of other requests are in flight.
C9_NoOutboundLimit ==
  \A r \in ReqIds :
    (reqs[r].st = "queued" /\ IsNeo(r)) => ENABLED get_neo_call(r)

\* C10 as claimed: every HEAD /heartbeat that waits to be served is answered.
C10_HeartbeatAnswered ==
  \A r \in ReqIds :
    (reqs[r].st = "queued" /\ IsHeartbeat(r)) ~> (reqs[r].st = "done")

====
